---- MODULE Spec2Model ----
(***************************************************************************)
(* Model of one_run_laptop_pipeline.py: the resumable extraction pipeline  *)
(* (input.xlsx -> scrape (cached) -> Groq (cached) -> output CSV).         *)
(*                                                                         *)
(* Representation.  A Python string is the sequence of its characters      *)
(* (<<"A","b">> is "Ab", <<>> is ""), so that strip() and blank tests are  *)
(* computed and not assumed.  Values that are not strings (JSON null, a    *)
(* number, the NaN of an empty spreadsheet cell) are one-element sequences *)
(* holding a token that is not a character.  A schema field name is the tuple of its "__"-separated      *)
(* parts, so "attributes__brand" is <<"attributes","brand">>.  A dict is a *)
(* function from keys to values.                                           *)
(***************************************************************************)
EXTENDS Integers, Sequences, FiniteSets, TLC

(***************************************************************************)
(* Bounds of the model                                                     *)
(***************************************************************************)
\* rows of the spreadsheet in a run
MaxRecords == 2

\* HTTP 429 answers the model endpoint gives during a run of several records
\* (a run of one record is explored with every number of them)
Max429 == 1

\* elements of a document given to the Bot-Block Detector on its own
MaxNodes == 2

(***************************************************************************)
(* CONFIG constants                                                        *)
(***************************************************************************)
NA == <<"#", "N", "A">>

MAX_SCRAPE_ATTEMPTS == 3

SKIP_HTML_IF_EXISTS_OVER_BYTES == 50000

MAX_GROQ_RETRIES == 6

\* MIN_DELAY_BETWEEN_CALLS = 3.5 s, in tenths of a second
MIN_DELAY_BETWEEN_CALLS == 35

\* BACKOFF_BASE, and BACKOFF_JITTER = (0.2, 0.8); delays are in tenths of a second
BACKOFF_BASE == 2

JitterLo == 2

JitterHi == 8

\* max_visible_chars of the first compaction and of the retry after HTTP 413
FullBudget == 18000

SmallBudget == 9000

HEADERS ==
  <<
     <<"sku">>, <<"base_code">>,
     <<"attributes", "lulu_ean">>, <<"attributes", "keywords">>,
     <<"attributes", "shipping_weight">>, <<"attributes", "brand">>,
     <<"attributes", "product_title">>, <<"attributes", "bullet_point_1">>,
     <<"attributes", "bullet_point_2">>, <<"attributes", "bullet_point_3">>,
     <<"attributes", "bullet_point_4">>, <<"attributes", "bullet_point_5">>,
     <<"attributes", "bullet_point_6">>, <<"attributes", "product_description">>,
     <<"attributes", "lulu_product_type">>, <<"attributes", "model">>,
     <<"attributes", "weight">>, <<"attributes", "in_the_box">>,
     <<"attributes", "product_dimensions">>, <<"attributes", "display_type">>,
     <<"attributes", "display_resolution">>, <<"attributes", "ram">>,
     <<"attributes", "processor">>, <<"attributes", "wifi">>,
     <<"attributes", "bluetooth">>, <<"attributes", "battery_capacity">>,
     <<"attributes", "battery_type">>, <<"attributes", "audio">>,
     <<"attributes", "part_number">>, <<"attributes", "web_camera">>,
     <<"attributes", "refresh_rate">>, <<"attributes", "storage">>,
     <<"attributes", "version">>, <<"attributes", "graphics_card">>,
     <<"attributes", "hdmi">>, <<"attributes", "usb">>,
     <<"attributes", "keyboard_touchpad">>, <<"attributes", "accessories">>,
     <<"attributes", "power">>, <<"attributes", "model_year">>,
     <<"attributes", "no_of_channels">>, <<"attributes", "country_of_origin">>,
     <<"attributes", "color">>, <<"attributes", "other_information">>,
     <<"attributes", "graphic_memory">>, <<"attributes", "ethernet">>
  >>

HeaderSet == {HEADERS[i] : i \in 1..Len(HEADERS)}

(***************************************************************************)
(* Strings and JSON values                                                 *)
(***************************************************************************)
Whitespace == {" "}

\* JSON null (Python None) and a JSON number: not strings
None == <<"null">>

Num0 == <<"number:0">>

\* isinstance(v, str), for the values of a JSON object
IsStr(v) == v # None /\ v # Num0

RECURSIVE LStrip(_)
LStrip(s) == IF s # <<>> /\ Head(s) \in Whitespace THEN LStrip(Tail(s)) ELSE s

RECURSIVE RStrip(_)
RStrip(s) ==
  IF s # <<>> /\ s[Len(s)] \in Whitespace THEN RStrip(SubSeq(s, 1, Len(s) - 1)) ELSE s

\* str.strip()
Strip(s) == RStrip(LStrip(s))

\* Python's  a or b  on strings
Or(a, b) == IF a = <<>> THEN b ELSE a

(***************************************************************************)
(* Row Normalizer                                                          *)
(***************************************************************************)
normalize_to_headers(row) ==
  [h \in HeaderSet |->
     LET v == IF h \in DOMAIN row THEN row[h] ELSE NA
     IN  IF v = None \/ (IsStr(v) /\ Strip(v) = <<>>) THEN NA ELSE v]

\* seeded fault: the ean of the input record is used only when the model gave none
EnforceMappings_KeepModelEan(final_row, input_row) ==
  LET r1 == [final_row EXCEPT
               ![<<"sku">>] = input_row.sku,
               ![<<"base_code">>] = input_row.sku,
               ![<<"attributes", "lulu_ean">>] =
                  IF @ = NA THEN Or(input_row.ean, NA) ELSE @,
               ![<<"attributes", "shipping_weight">>] = Or(input_row.shipping_weight, NA),
               ![<<"attributes", "color">>] = Or(input_row.color, NA),
               ![<<"attributes", "lulu_product_type">>] = Or(input_row.product_type, NA),
               ![<<"attributes", "version">>] = Or(input_row.mm43, NA)]
  IN  IF r1[<<"attributes", "other_information">>] = NA
      THEN [r1 EXCEPT ![<<"attributes", "other_information">>] = Or(input_row.category, NA)]
      ELSE r1

\* seeded fault: the category always replaces other_information
EnforceMappings_AlwaysCategory(final_row, input_row) ==
  LET r1 == [final_row EXCEPT
               ![<<"sku">>] = input_row.sku,
               ![<<"base_code">>] = input_row.sku,
               ![<<"attributes", "lulu_ean">>] = Or(input_row.ean, NA),
               ![<<"attributes", "shipping_weight">>] = Or(input_row.shipping_weight, NA),
               ![<<"attributes", "color">>] = Or(input_row.color, NA),
               ![<<"attributes", "lulu_product_type">>] = Or(input_row.product_type, NA),
               ![<<"attributes", "version">>] = Or(input_row.mm43, NA)]
  IN  [r1 EXCEPT ![<<"attributes", "other_information">>] = Or(input_row.category, NA)]

\* the "enforce mappings" block applied to a normalized row
EnforceMappings(final_row, input_row) ==
  LET r1 == [final_row EXCEPT
               ![<<"sku">>] = input_row.sku,
               ![<<"base_code">>] = input_row.sku,
               ![<<"attributes", "lulu_ean">>] = Or(input_row.ean, NA),
               ![<<"attributes", "shipping_weight">>] = Or(input_row.shipping_weight, NA),
               ![<<"attributes", "color">>] = Or(input_row.color, NA),
               ![<<"attributes", "lulu_product_type">>] = Or(input_row.product_type, NA),
               ![<<"attributes", "version">>] = Or(input_row.mm43, NA)]
  IN  IF r1[<<"attributes", "other_information">>] = NA
      THEN [r1 EXCEPT ![<<"attributes", "other_information">>] = Or(input_row.category, NA)]
      ELSE r1

\* seeded fault: the color of the input record is not copied
make_na_row_NoColor(input_row) ==
  [h \in HeaderSet |->
     CASE h = <<"sku">> -> input_row.sku
       [] h = <<"base_code">> -> input_row.sku
       [] h = <<"attributes", "lulu_ean">> -> Or(Strip(input_row.ean), NA)
       [] h = <<"attributes", "shipping_weight">> -> Or(Strip(input_row.shipping_weight), NA)
       [] h = <<"attributes", "lulu_product_type">> -> Or(Strip(input_row.product_type), NA)
       [] h = <<"attributes", "version">> -> Or(Strip(input_row.mm43), NA)
       [] h = <<"attributes", "other_information">> -> Or(Strip(input_row.category), NA)
       [] OTHER -> NA]

make_na_row(input_row) ==
  [h \in HeaderSet |->
     CASE h = <<"sku">> -> input_row.sku
       [] h = <<"base_code">> -> input_row.sku
       [] h = <<"attributes", "lulu_ean">> -> Or(Strip(input_row.ean), NA)
       [] h = <<"attributes", "shipping_weight">> -> Or(Strip(input_row.shipping_weight), NA)
       [] h = <<"attributes", "color">> -> Or(Strip(input_row.color), NA)
       [] h = <<"attributes", "lulu_product_type">> -> Or(Strip(input_row.product_type), NA)
       [] h = <<"attributes", "version">> -> Or(Strip(input_row.mm43), NA)
       [] h = <<"attributes", "other_information">> -> Or(Strip(input_row.category), NA)
       [] OTHER -> NA]

\* csv.DictWriter.writerow: the values in fieldnames order, None written as ""
CsvCell(v) == IF v = None THEN <<>> ELSE v

\* seeded fault: the last field is not written
CsvLine_DropLast(row) == [i \in 1..(Len(HEADERS) - 1) |-> CsvCell(row[HEADERS[i]])]

CsvLine(row) == [i \in 1..Len(HEADERS) |-> CsvCell(row[HEADERS[i]])]

(***************************************************************************)
(* Input Loader: the input_row built from one spreadsheet row              *)
(***************************************************************************)
\* the value pandas gives for an empty cell
NaN == <<"float:nan">>

\* str(v) of a cell value: a string is itself, NaN is "nan"
Str(v) == IF v = NaN THEN <<"n", "a", "n">> ELSE v

InputRow(cells) ==
  [sku |-> Strip(Str(cells.sku)), ean |-> Strip(Str(cells.ean)),
   shipping_weight |-> Strip(Str(cells.shipping_weight)),
   color |-> Strip(Str(cells.color)),
   product_type |-> Strip(Str(cells.product_type)), url |-> Strip(Str(cells.url)),
   mm43 |-> Strip(Str(cells.mm43)), category |-> Strip(Str(cells.category))]


(***************************************************************************)
(* The environment: spreadsheet cells, pages of the sites, model answers   *)
(***************************************************************************)
skuA == <<"A">>

skuB == <<"B">>

\* the sku cells of the spreadsheet: " ", "A", " B" (stripped by the loader)
SkuCells == {<<" ">>, skuA, <<" ">> \o skuB}

\* each product has its own page url
UrlFor(skucell) == IF Strip(skucell) = skuB THEN <<"u", "b">> ELSE <<"u", "a">>

\* the six override cells of a spreadsheet row: product B has them blank
\* (no such column, spaces) but for an empty mm43 cell, the other rows have
\* them all filled
OverridesFor(skucell) ==
  IF Strip(skucell) = skuB
  THEN [ean |-> <<>>, shipping_weight |-> <<" ">>, color |-> <<>>,
        product_type |-> <<" ", " ">>, mm43 |-> NaN, category |-> <<>>]
  ELSE [ean |-> <<"1", "2", "3">>, shipping_weight |-> <<"2">>, color |-> <<" ", "r">>,
        product_type |-> <<"t">>, mm43 |-> <<"4">>, category |-> <<"c", " ">>]

\* a spreadsheet row
Cell(s, u) ==
  [sku |-> s, url |-> u, ean |-> OverridesFor(s).ean,
   shipping_weight |-> OverridesFor(s).shipping_weight,
   color |-> OverridesFor(s).color, product_type |-> OverridesFor(s).product_type,
   mm43 |-> OverridesFor(s).mm43, category |-> OverridesFor(s).category]

\* the rows a spreadsheet may hold: the url cell is blank or the product's url
Cells == UNION { {Cell(s, <<" ">>), Cell(s, UrlFor(s))} : s \in SkuCells }

\* An HTML document: the url it was loaded from, the size of its markup in
\* bytes, and its elements (tag, text) in document order.
Doc(src, bytes, nodes) == [src |-> src, bytes |-> bytes, nodes |-> nodes]

\* page.content() of the fresh page (about:blank)
BlankPage == Doc(<<>>, 39, <<>>)

\* the empty string ""
NoHtml == Doc(<<>>, 0, <<>>)

ProductNodes == << [tag |-> "h1", text |-> <<"L", "a", "p", "t", "o", "p">>] >>

RobotCheckNodes ==
  << [tag |-> "p", text |-> <<"R", "o", "b", "o", "t", " ", "C", "h", "e", "c", "k">>] >>

\* what the site may serve at a url: a product page over or under the
\* size threshold, or a challenge page
Pages(url) ==
  { Doc(url, SKIP_HTML_IF_EXISTS_OVER_BYTES, ProductNodes),
    Doc(url, SKIP_HTML_IF_EXISTS_OVER_BYTES - 1, ProductNodes),
    Doc(url, SKIP_HTML_IF_EXISTS_OVER_BYTES, RobotCheckNodes) }

\* what the page holds after the failed attempts, when scrape_html gives up:
\* what it held before them, or a partially loaded document of the url
PartialPage(url) == Doc(url, SKIP_HTML_IF_EXISTS_OVER_BYTES - 1, ProductNodes)

\* JSON objects the model endpoint may answer with
EmptyObject == [h \in {} |-> NA]

AcmeObject == (<<"attributes", "brand">> :> <<"A", "c", "m", "e">>)

\* an answer that contradicts the master data, has blank and null values,
\* a number, and a key outside the schema
HostileObject ==
  (<<"sku">> :> <<"X">>) @@ (<<"base_code">> :> <<"Y">>) @@
  (<<"attributes", "lulu_ean">> :> <<"9">>) @@ (<<"attributes", "shipping_weight">> :> <<"9">>) @@
  (<<"attributes", "color">> :> <<"9">>) @@ (<<"attributes", "lulu_product_type">> :> <<"9">>) @@
  (<<"attributes", "version">> :> <<"9">>) @@ (<<"attributes", "other_information">> :> <<" ", "o">>) @@
  (<<"attributes", "brand">> :> <<" ">>) @@ (<<"attributes", "keywords">> :> None) @@ (<<"attributes", "model">> :> Num0) @@
  (<<"attributes", "product_title">> :> <<>>) @@ (<<"extra">> :> <<"e">>)

ModelObjects == {EmptyObject, AcmeObject, HostileObject}

\* random.uniform(*BACKOFF_JITTER), in tenths of a second
Jitter == {JitterLo, JitterHi}

\* ways a model request can fail other than 429 and 413
GroqErrors == {"http_error", "transport", "no_json", "bad_json"}

\* the sku columns of the prior output artifacts, oldest first: none, or an
\* older one listing B and a newer one listing A
PriorChoices == { <<>>, << <<skuB>>, <<skuA>> >> }

\* the input records of those spreadsheet rows
InputRows == {InputRow(cells) : cells \in Cells}

(***************************************************************************)
(* Bot-Block Detector                                                      *)
(***************************************************************************)
DecomposedTags == {"script", "style", "noscript", "svg", "canvas", "iframe"}

UpperCase == <<"A", "B", "C", "D", "E", "F", "G", "H", "I", "J", "K", "L", "M", "N", "O", "P", "Q", "R", "S", "T", "U", "V", "W", "X", "Y", "Z">>

LowerCase == <<"a", "b", "c", "d", "e", "f", "g", "h", "i", "j", "k", "l", "m", "n", "o", "p", "q", "r", "s", "t", "u", "v", "w", "x", "y", "z">>

\* str.lower(), one character
LowerChar(c) ==
  IF \E i \in 1..Len(UpperCase) : UpperCase[i] = c
  THEN LowerCase[CHOOSE i \in 1..Len(UpperCase) : UpperCase[i] = c]
  ELSE c

Lower(s) == [i \in 1..Len(s) |-> LowerChar(s[i])]

\* soup.get_text(" ", strip=True) after the decomposed tags are removed:
\* the stripped, non-empty texts joined by one space
RECURSIVE GetText(_)
GetText(nodes) ==
  IF nodes = <<>> THEN <<>>
  ELSE LET n == Head(nodes)
           t == IF n.tag \in DecomposedTags THEN <<>> ELSE Strip(n.text)
           rest == GetText(Tail(nodes))
       IN  IF t = <<>> THEN rest
           ELSE IF rest = <<>> THEN t
           ELSE t \o <<" ">> \o rest

\* Python's  p in t  on strings
Contains(t, p) ==
  \E i \in 1..(Len(t) - Len(p) + 1) : SubSeq(t, i, i + Len(p) - 1) = p

StrongPhrases ==
  { <<"e", "n", "t", "e", "r", " ", "t", "h", "e", " ", "c", "h", "a", "r", "a", "c", "t", "e", "r", "s", " ", "y", "o", "u", " ", "s", "e", "e">>,
    <<"v", "e", "r", "i", "f", "y", " ", "y", "o", "u", " ", "a", "r", "e", " ", "a", " ", "h", "u", "m", "a", "n">>,
    <<"r", "o", "b", "o", "t", " ", "c", "h", "e", "c", "k">>,
    <<"n", "o", "t", " ", "a", " ", "r", "o", "b", "o", "t">>,
    <<"u", "n", "u", "s", "u", "a", "l", " ", "t", "r", "a", "f", "f", "i", "c">>,
    <<"a", "u", "t", "o", "m", "a", "t", "e", "d", " ", "a", "c", "c", "e", "s", "s">> }

Captcha == <<"c", "a", "p", "t", "c", "h", "a">>

WeakPhrases ==
  { <<"v", "e", "r", "i", "f", "y">>,
    <<"r", "o", "b", "o", "t">>,
    <<"h", "u", "m", "a", "n">>,
    <<"u", "n", "u", "s", "u", "a", "l", " ", "t", "r", "a", "f", "f", "i", "c">> }

\* seeded fault: the text is not lower-cased
looks_blocked_case_sensitive(html) ==
  LET text == GetText(html.nodes)
  IN  \/ \E p \in StrongPhrases : Contains(text, p)
      \/ Contains(text, Captcha) /\ \E p \in WeakPhrases : Contains(text, p)

looks_blocked_visible_text(html) ==
  LET text == Lower(GetText(html.nodes))
  IN  \/ \E p \in StrongPhrases : Contains(text, p)
      \/ Contains(text, Captcha) /\ \E p \in WeakPhrases : Contains(text, p)

(***************************************************************************)
(* State                                                                   *)
(***************************************************************************)
VARIABLES
  pc,          \* where the script is: "start" (being loaded), "aborted"
               \* (SystemExit), "loop" (top of main()'s for loop), "scrape"
               \* (in scrape_html's attempt loop), "groq" (in
               \* call_groq_with_retries' attempt loop), "done"
  prior,       \* sku columns of the prior output artifacts, oldest first
  done_skus,   \* the Resume Index
  out,         \* lines of OUT_CSV: the header, then the rows written
  log,         \* row-level lines of the run log
  n,           \* input records read so far
  cur,         \* input_row of the record being processed
  groq_cache,  \* Extraction Cache: sku -> persisted model result
  html_cache,  \* HTML Cache: sku -> persisted document
  page,        \* what the one browser page currently holds
  browser,     \* "none", "open", "closed"
  attempt,     \* attempt number of the active retry loop
  html,        \* the html main() got from scrape_html for this record
  budget,      \* max_visible_chars of the payload sent to the model
  backoff,     \* last backoff slept in this call_groq_with_retries (0: none)
  resp,        \* last answer of the model endpoint for this record
  kind,        \* outcome of this record ("" while it is being processed)
  io,          \* what has been done for this record so far
  nrows,       \* number of rows of input.xlsx
  skus_read,   \* the sku of every input record read so far, in order
  throttle,    \* HTTP 429 answers the model endpoint will still give
  api_key,     \* whether GROQ_API_KEY is set (and not empty) in the environment
  since,       \* time.time() - _last_call_ts in tenths of a second, as far
               \* as pace_calls can tell: capped at MIN_DELAY_BETWEEN_CALLS
  tables_text  \* tables_text of the payload html_to_compact_payload built
               \* last: lines joined by "\n", or NA for a page without table
               \* lines (the pages of a run hold no table) and before any

vars ==
  <<pc, prior, done_skus, out, log, n, cur, groq_cache, html_cache, page, browser,
    attempt, html, budget, backoff, resp, kind, io, nrows, skus_read,
    throttle, api_key, since, tables_text>>

NoRow ==
  [sku |-> <<>>, ean |-> <<>>, shipping_weight |-> <<>>, color |-> <<>>,
   product_type |-> <<>>, url |-> <<>>, mm43 |-> <<>>, category |-> <<>>]

\* navs: page.goto calls; calls: requests to the model endpoint; r429: HTTP
\* 429 answers in the current call_groq_with_retries; gcReads, hcReads: calls
\* of read_cached_groq_json and read_cached_html_if_ok; gcWrites, hcWrites:
\* writes of {sku}.json and {sku}.html; cached, htmlBig: whether the record
\* found a {sku}.json, and a {sku}.html of at least the threshold size
\* r413: HTTP 413 answers for this record; slept: what pace_calls slept
\* before the latest request, in tenths of a second, while the record is
\* in call_groq_with_retries; paced: whether every request for this record
\* was sent at least MIN_DELAY_BETWEEN_CALLS after _last_call_ts
NoIO ==
  [navs |-> 0, calls |-> 0, r429 |-> 0, gcReads |-> 0, hcReads |-> 0, gcWrites |-> 0,
   hcWrites |-> 0, cached |-> FALSE, htmlBig |-> FALSE, r413 |-> 0, slept |-> 0,
   paced |-> TRUE]

NoFiles == [k \in {} |-> NoHtml]

Put(f, k, v) == [x \in DOMAIN f \cup {k} |-> IF x = k THEN v ELSE f[x]]

Line(tag, sku) == [tag |-> tag, sku |-> sku]

\* what the record finds on disk when its iteration starts
StartIO(r) ==
  [NoIO EXCEPT
     !.cached = r.sku \in DOMAIN groq_cache,
     !.htmlBig = /\ r.sku \in DOMAIN html_cache
                 /\ html_cache[r.sku].bytes >= SKIP_HTML_IF_EXISTS_OVER_BYTES]

Init ==
  /\ pc = "start"
  /\ prior \in PriorChoices
  /\ done_skus = {}
  /\ out = <<>>
  /\ log = <<>>
  /\ n = 0
  /\ cur = NoRow
  /\ groq_cache = NoFiles
  /\ html_cache = NoFiles
  /\ page = NoHtml
  /\ browser = "none"
  /\ attempt = 0
  /\ html = NoHtml
  /\ budget = FullBudget
  /\ backoff = 0
  /\ resp = ""
  /\ kind = ""
  /\ io = NoIO
  /\ skus_read = <<>>
  /\ \/ nrows \in 0..MaxRecords /\ throttle = Max429
     \/ nrows = 1 /\ throttle = 2 * MAX_GROQ_RETRIES
  /\ api_key \in BOOLEAN
  /\ since = MIN_DELAY_BETWEEN_CALLS
  /\ tables_text = NA

(***************************************************************************)
(* Resume Index                                                            *)
(***************************************************************************)
\* the most recently modified prior artifact, if any
latest_output_csv == IF prior = <<>> THEN <<>> ELSE << prior[Len(prior)] >>

load_done_skus_from_csv(column) ==
  {Strip(column[i]) : i \in 1..Len(column)} \ {<<>>}

\* the sku column of an output artifact
SkuColumn(lines) == [i \in 1..(Len(lines) - 1) |-> lines[i + 1][1]]

(***************************************************************************)
(* Caches                                                                  *)
(***************************************************************************)
\* read_cached_groq_json followed by  if cached_groq:  (an empty dict is falsy)
GroqCacheHit(sku) == sku \in DOMAIN groq_cache /\ DOMAIN groq_cache[sku] # {}

\* seeded fault: > instead of >= in the size test
read_cached_html_if_over(sku) ==
  IF sku \in DOMAIN html_cache /\ html_cache[sku].bytes > SKIP_HTML_IF_EXISTS_OVER_BYTES
  THEN html_cache[sku]
  ELSE NoHtml

\* read_cached_html_if_ok followed by  if cached:
read_cached_html_if_ok(sku) ==
  IF sku \in DOMAIN html_cache /\ html_cache[sku].bytes >= SKIP_HTML_IF_EXISTS_OVER_BYTES
  THEN html_cache[sku]
  ELSE NoHtml

HtmlCacheHit(sku) == read_cached_html_if_ok(sku).bytes > 0

(***************************************************************************)
(* main(): start of the run                                                *)
(***************************************************************************)
\* GROQ_API_KEY is missing: SystemExit while the module is loaded, before
\* main() is called
MissingKeyExit ==
  /\ pc = "start"
  /\ ~api_key
  /\ pc' = "aborted"
  /\ UNCHANGED <<prior, done_skus, out, log, n, cur, groq_cache, html_cache, page,
                 browser, attempt, html, budget, backoff, resp, kind, io, nrows, tables_text,
                 skus_read, throttle, api_key, since>>

\* seeded fault: main() runs without the key
StartRun_NoKeyCheck ==
  /\ pc = "start"
  /\ done_skus' =
       IF latest_output_csv = <<>> THEN {}
       ELSE load_done_skus_from_csv(latest_output_csv[1])
  /\ log' = Append(log, Line("RESUME_FROM_OLD_CSV", <<>>))
  /\ out' = <<HEADERS>>
  /\ browser' = "open"
  /\ page' = BlankPage
  /\ pc' = "loop"
  /\ UNCHANGED <<prior, n, cur, groq_cache, html_cache, attempt, html, budget, backoff,
                 resp, kind, io, nrows, tables_text, api_key, since, skus_read, throttle>>

\* main() up to the for loop: Resume Index, output header, browser session
StartRun ==
  /\ pc = "start"
  /\ api_key
  /\ done_skus' =
       IF latest_output_csv = <<>> THEN {}
       ELSE load_done_skus_from_csv(latest_output_csv[1])
  /\ log' = Append(log, Line("RESUME_FROM_OLD_CSV", <<>>))
  /\ out' = <<HEADERS>>
  /\ browser' = "open"
  /\ page' = BlankPage
  /\ pc' = "loop"
  /\ UNCHANGED <<prior, n, cur, groq_cache, html_cache, attempt, html, budget, backoff,
                 resp, kind, io, nrows, tables_text, api_key, since, skus_read, throttle>>

(***************************************************************************)
(* main(): one iteration of the for loop, up to its first external call    *)
(***************************************************************************)
\* seeded fault: the row is written twice
Emit_Twice(row) == out' = Append(Append(out, CsvLine(row)), CsvLine(row))

\* writer.writerow(row)
Emit(row) == out' = Append(out, CsvLine(row))

\* leaving a record: the locals of the iteration are gone
EndRow(k) ==
  /\ pc' = "loop"
  /\ kind' = k
  /\ attempt' = 0
  /\ budget' = FullBudget
  /\ backoff' = 0

RowMissing ==
  /\ pc = "loop"
  /\ n < nrows
  /\ \E r \in InputRows :
         /\ r.sku = <<>> \/ r.url = <<>>
         /\ cur' = r
         /\ log' = Append(log, Line("ROW_SKIP missing sku/url", r.sku))
         /\ Emit(make_na_row(r))
  /\ n' = n + 1
  /\ skus_read' = Append(skus_read, cur'.sku)
  /\ EndRow("missing")
  /\ html' = NoHtml
  /\ resp' = ""
  /\ io' = StartIO(cur')
  /\ UNCHANGED <<prior, done_skus, groq_cache, html_cache, page, browser,
                 nrows, tables_text, api_key, since, throttle>>

RowResumeSkip ==
  /\ pc = "loop"
  /\ n < nrows
  /\ \E r \in InputRows :
         /\ r.sku # <<>> /\ r.url # <<>>
         /\ r.sku \in done_skus
         /\ cur' = r
         /\ log' = Append(log, Line("ROW_SKIP already_in_old_csv", r.sku))
  /\ n' = n + 1
  /\ skus_read' = Append(skus_read, cur'.sku)
  /\ EndRow("resume")
  /\ html' = NoHtml
  /\ resp' = ""
  /\ io' = StartIO(cur')
  /\ UNCHANGED <<prior, done_skus, out, groq_cache, html_cache, page, browser,
                 nrows, tables_text, api_key, since, throttle>>

RowCacheHit ==
  /\ pc = "loop"
  /\ n < nrows
  /\ \E r \in InputRows :
         /\ r.sku # <<>> /\ r.url # <<>>
         /\ r.sku \notin done_skus
         /\ GroqCacheHit(r.sku)
         /\ cur' = r
         /\ Emit(EnforceMappings(normalize_to_headers(groq_cache[r.sku]), r))
         /\ log' = Append(log, Line("GROQ_CACHE_HIT", r.sku))
  /\ n' = n + 1
  /\ skus_read' = Append(skus_read, cur'.sku)
  /\ EndRow("cache")
  /\ html' = NoHtml
  /\ resp' = ""
  /\ io' = [StartIO(cur') EXCEPT !.gcReads = 1]
  /\ UNCHANGED <<prior, done_skus, groq_cache, html_cache, page, browser,
                 nrows, tables_text, api_key, since, throttle>>

\* seeded fault: a blocked page ends the record without a row
AfterScrape_NoBlockedRow(ok, h) ==
  /\ html' = h
  /\ IF ~ok \/ h.bytes = 0
     THEN /\ log' = Append(log, Line("ROW_FAIL scrape", cur'.sku))
          /\ Emit(make_na_row(cur'))
          /\ EndRow("scrapefail")
     ELSE IF looks_blocked_visible_text(h)
     THEN /\ log' = Append(log, Line("ROW_SKIP blocked_visible_text", cur'.sku))
          /\ out' = out
          /\ EndRow("blocked")
     ELSE /\ pc' = "groq"
          /\ kind' = ""
          /\ attempt' = 1
          /\ budget' = FullBudget
          /\ backoff' = 0
          /\ UNCHANGED <<out, log>>

\* seeded fault: no block check
AfterScrape_BlockedToModel(ok, h) ==
  /\ html' = h
  /\ IF ~ok \/ h.bytes = 0
     THEN /\ log' = Append(log, Line("ROW_FAIL scrape", cur'.sku))
          /\ Emit(make_na_row(cur'))
          /\ EndRow("scrapefail")
     ELSE /\ pc' = "groq"
          /\ kind' = ""
          /\ attempt' = 1
          /\ budget' = FullBudget
          /\ backoff' = 0
          /\ UNCHANGED <<out, log>>

\* main() after scrape_html returned (ok, h): the scrape and block checks,
\* then the first compaction and the entry into call_groq_with_retries
AfterScrape(ok, h) ==
  /\ html' = h
  /\ IF ~ok \/ h.bytes = 0
     THEN /\ log' = Append(log, Line("ROW_FAIL scrape", cur'.sku))
          /\ Emit(make_na_row(cur'))
          /\ EndRow("scrapefail")
     ELSE IF looks_blocked_visible_text(h)
     THEN /\ log' = Append(log, Line("ROW_SKIP blocked_visible_text", cur'.sku))
          /\ Emit(make_na_row(cur'))
          /\ EndRow("blocked")
     ELSE /\ pc' = "groq"
          /\ kind' = ""
          /\ attempt' = 1
          /\ budget' = FullBudget
          /\ backoff' = 0
          /\ UNCHANGED <<out, log>>

RowHtmlCacheHit ==
  /\ pc = "loop"
  /\ n < nrows
  /\ \E r \in InputRows :
         /\ r.sku # <<>> /\ r.url # <<>>
         /\ r.sku \notin done_skus
         /\ ~GroqCacheHit(r.sku)
         /\ HtmlCacheHit(r.sku)
         /\ cur' = r
         /\ AfterScrape(TRUE, read_cached_html_if_ok(r.sku))
  /\ n' = n + 1
  /\ skus_read' = Append(skus_read, cur'.sku)
  /\ resp' = ""
  /\ io' = [StartIO(cur') EXCEPT !.gcReads = 1, !.hcReads = 1]
  /\ UNCHANGED <<prior, done_skus, groq_cache, html_cache, page, browser,
                 nrows, tables_text, api_key, since, throttle>>

RowFetchStart ==
  /\ pc = "loop"
  /\ n < nrows
  /\ \E r \in InputRows :
         /\ r.sku # <<>> /\ r.url # <<>>
         /\ r.sku \notin done_skus
         /\ ~GroqCacheHit(r.sku)
         /\ ~HtmlCacheHit(r.sku)
         /\ cur' = r
  /\ n' = n + 1
  /\ skus_read' = Append(skus_read, cur'.sku)
  /\ pc' = "scrape"
  /\ kind' = ""
  /\ attempt' = 1
  /\ html' = NoHtml
  /\ budget' = FullBudget
  /\ backoff' = 0
  /\ resp' = ""
  /\ io' = [StartIO(cur') EXCEPT !.gcReads = 1, !.hcReads = 1]
  /\ UNCHANGED <<prior, done_skus, out, log, groq_cache, html_cache, page, browser,
                 nrows, tables_text, api_key, since, throttle>>

(***************************************************************************)
(* Page Fetcher: one attempt of scrape_html's loop per step                *)
(***************************************************************************)
\* seeded fault: the document is returned without being saved
ScrapeOK_NotSaved ==
  /\ pc = "scrape"
  /\ UNCHANGED cur
  /\ \E h \in Pages(cur.url) :
       /\ page' = h
       /\ html_cache' = html_cache
       /\ AfterScrape(TRUE, h)
  /\ io' = [io EXCEPT !.navs = @ + 1]
  /\ UNCHANGED <<prior, done_skus, n, groq_cache, browser, resp, nrows, tables_text, api_key, since, skus_read, throttle>>

\* the attempt completes: the document is saved and returned
ScrapeOK ==
  /\ pc = "scrape"
  /\ UNCHANGED cur
  /\ \E h \in Pages(cur.url) :
       /\ page' = h
       /\ html_cache' = Put(html_cache, cur.sku, h)
       /\ AfterScrape(TRUE, h)
  /\ io' = [io EXCEPT !.navs = @ + 1, !.hcWrites = @ + 1]
  /\ UNCHANGED <<prior, done_skus, n, groq_cache, browser, resp, nrows, tables_text, api_key, since, skus_read, throttle>>

\* seeded fault: one attempt too many
ScrapeRetry_OneMore ==
  /\ pc = "scrape"
  /\ attempt <= MAX_SCRAPE_ATTEMPTS
  /\ attempt' = attempt + 1
  /\ io' = [io EXCEPT !.navs = @ + 1]
  /\ UNCHANGED <<pc, prior, done_skus, out, log, n, cur, groq_cache, html_cache, page,
                 browser, html, budget, backoff, resp, kind, nrows, tables_text, api_key, since, skus_read, throttle>>

\* the attempt raises (timeout or other error) and another one follows
ScrapeRetry ==
  /\ pc = "scrape"
  /\ attempt < MAX_SCRAPE_ATTEMPTS
  /\ attempt' = attempt + 1
  /\ io' = [io EXCEPT !.navs = @ + 1]
  /\ UNCHANGED <<pc, prior, done_skus, out, log, n, cur, groq_cache, html_cache, page,
                 browser, html, budget, backoff, resp, kind, nrows, tables_text, api_key, since, skus_read, throttle>>

\* the last attempt raises: "final fail: try save whatever is present"
ScrapeExhausted ==
  /\ pc = "scrape"
  /\ attempt = MAX_SCRAPE_ATTEMPTS
  /\ UNCHANGED cur
  /\ page' \in {page, PartialPage(cur.url)}
  /\ \E saved \in BOOLEAN :
       IF saved
       THEN /\ html_cache' = Put(html_cache, cur.sku, page')
            /\ io' = [io EXCEPT !.navs = @ + 1, !.hcWrites = @ + 1]
            /\ AfterScrape(FALSE, page')
       ELSE /\ html_cache' = html_cache
            /\ io' = [io EXCEPT !.navs = @ + 1]
            /\ AfterScrape(FALSE, NoHtml)
  /\ UNCHANGED <<prior, done_skus, n, groq_cache, browser, resp, nrows, tables_text, api_key, since, skus_read, throttle>>

(***************************************************************************)
(* Extraction Client: one request of call_groq_with_retries per step       *)
(***************************************************************************)
Pow(b, e) == IF e = 0 THEN 1 ELSE IF e = 1 THEN b ELSE IF e = 2 THEN b * b
             ELSE IF e = 3 THEN b * b * b ELSE IF e = 4 THEN b * b * b * b
             ELSE b * b * b * b * b

\* seeded fault: the base is not raised to the attempt number
Backoff_Flat(att, jitter) == 10 * BACKOFF_BASE + jitter

\* (BACKOFF_BASE ** (attempt - 1)) + random.uniform(*BACKOFF_JITTER), in tenths
Backoff(att, jitter) == 10 * Pow(BACKOFF_BASE, att - 1) + jitter

\* seeded fault: no sleep
pace_calls_NoSleep(elapsed) == 0

\* pace_calls: what it sleeps when elapsed tenths of a second have passed
\* since _last_call_ts; it then sets _last_call_ts to the time it returns at
pace_calls(elapsed) ==
  LET wait == MIN_DELAY_BETWEEN_CALLS - elapsed
  IN  IF wait > 0 THEN wait ELSE 0

\* time the endpoint takes to answer, in tenths of a second: the fastest
\* answer, which leaves pace_calls the most to sleep
ResponseTimes == {1}

\* time.sleep(random.uniform(*DELAY_RANGE)) at the end of an iteration:
\* at least 4.0 s
DelayLo == 40

\* an elapsed time as pace_calls can tell it
Capped(t) == IF t > MIN_DELAY_BETWEEN_CALLS THEN MIN_DELAY_BETWEEN_CALLS ELSE t

\* one more request to the endpoint, sent when pace_calls returns
Request ==
  [io EXCEPT !.calls = @ + 1,
             !.slept = pace_calls(since),
             !.paced = @ /\ (since + pace_calls(since) >= MIN_DELAY_BETWEEN_CALLS)]

\* seeded fault: the exception leaves main()
GroqRowFail_Uncaught ==
  /\ pc' = "aborted"
  /\ kind' = "groqfail"
  /\ attempt' = 0
  /\ budget' = FullBudget
  /\ backoff' = 0
  /\ UNCHANGED <<out, log, groq_cache>>

\* the except clause of main(): the record gets an NA row
GroqRowFail ==
  /\ log' = Append(log, Line("ROW_FAIL groq", cur.sku))
  /\ Emit(make_na_row(cur))
  /\ EndRow("groqfail")
  /\ UNCHANGED groq_cache

\* HTTP 429: sleep the backoff, then the next attempt, or RuntimeError
\* after the last one
Groq429 ==
  /\ pc = "groq"
  /\ throttle > 0
  /\ throttle' = throttle - 1
  /\ \E j \in Jitter : backoff' = Backoff(attempt, j)
  /\ resp' = "429"
  /\ IF attempt < MAX_GROQ_RETRIES
     THEN /\ attempt' = attempt + 1
          /\ io' = [Request EXCEPT !.r429 = @ + 1]
          /\ \E rt \in ResponseTimes : since' = Capped(rt + backoff')
          /\ UNCHANGED <<pc, out, log, groq_cache, budget, kind>>
     ELSE /\ io' = [Request EXCEPT !.r429 = @ + 1, !.slept = 0]
          /\ log' = Append(log, Line("ROW_FAIL groq", cur.sku))
          /\ Emit(make_na_row(cur))
          /\ pc' = "loop"
          /\ kind' = "groqfail"
          /\ attempt' = 0
          /\ budget' = FullBudget
          /\ since' = Capped(backoff' + DelayLo)
          /\ UNCHANGED groq_cache
  /\ UNCHANGED <<prior, done_skus, n, cur, html_cache, page, browser, html, nrows, tables_text, api_key,
                 skus_read>>

\* seeded fault: every HTTP 413 is answered by another call
Groq413_AlwaysRetry ==
  /\ pc = "groq"
  /\ resp' = "413"
  /\ budget' = SmallBudget
  /\ attempt' = 1
  /\ backoff' = 0
  /\ io' = [Request EXCEPT !.r429 = 0, !.r413 = @ + 1]
  /\ \E rt \in ResponseTimes : since' = Capped(rt)
  /\ UNCHANGED <<pc, out, log, groq_cache, kind>>
  /\ UNCHANGED <<prior, done_skus, n, cur, html_cache, page, browser, html, nrows, tables_text,
                 api_key, skus_read, throttle>>

\* HTTP 413: recompact with the small budget and call again, once
Groq413 ==
  /\ pc = "groq"
  /\ resp' = "413"
  /\ IF budget = FullBudget
     THEN /\ budget' = SmallBudget
          /\ attempt' = 1
          /\ backoff' = 0
          /\ io' = [Request EXCEPT !.r429 = 0, !.r413 = @ + 1]
          /\ \E rt \in ResponseTimes : since' = Capped(rt)
          /\ UNCHANGED <<pc, out, log, groq_cache, kind>>
     ELSE /\ io' = [Request EXCEPT !.r413 = @ + 1, !.slept = 0]
          /\ since' = Capped(DelayLo)
          /\ GroqRowFail
  /\ UNCHANGED <<prior, done_skus, n, cur, html_cache, page, browser, html, nrows, tables_text, api_key,
                 skus_read, throttle>>

\* another HTTP error status, a transport error, or an answer without a
\* parsable JSON object
GroqError ==
  /\ pc = "groq"
  /\ \E e \in GroqErrors : resp' = "error"
  /\ io' = [Request EXCEPT !.slept = 0]
  /\ since' = Capped(DelayLo)
  /\ GroqRowFail
  /\ UNCHANGED <<prior, done_skus, n, cur, html_cache, page, browser, html, nrows, tables_text, api_key,
                 skus_read, throttle>>

\* a JSON object: cached, normalized, mapped and written
GroqOK ==
  /\ pc = "groq"
  /\ resp' = "ok"
  /\ \E model_row \in ModelObjects :
       /\ groq_cache' = Put(groq_cache, cur.sku, model_row)
       /\ Emit(EnforceMappings(normalize_to_headers(model_row), cur))
  /\ log' = Append(log, Line("ROW_OK", cur.sku))
  /\ EndRow("model")
  /\ io' = [Request EXCEPT !.gcWrites = @ + 1, !.slept = 0]
  /\ since' = Capped(DelayLo)
  /\ UNCHANGED <<prior, done_skus, n, cur, html_cache, page, browser, html, nrows, tables_text, api_key,
                 skus_read, throttle>>

(***************************************************************************)
(* main(): end of the run                                                  *)
(***************************************************************************)
\* the for loop is over: the session is closed; the locals of the last
\* iteration are gone
\* seeded fault: the run ends without context.close() and browser.close()
EndRun_BrowserLeftOpen ==
  /\ pc = "loop"
  /\ n = nrows
  /\ pc' = "done"
  /\ prior' = Append(prior, SkuColumn(out))
  /\ cur' = NoRow
  /\ html' = NoHtml
  /\ resp' = ""
  /\ kind' = ""
  /\ io' = NoIO
  /\ UNCHANGED <<done_skus, out, log, n, groq_cache, html_cache, page, attempt,
                 browser, budget, backoff, nrows, tables_text, api_key, since,
                 skus_read, throttle>>

\* after the last record: context.close(), browser.close(), the script ends
EndRun ==
  /\ pc = "loop"
  /\ n = nrows
  /\ pc' = "done"
  /\ browser' = "closed"
  /\ prior' = Append(prior, SkuColumn(out))
  /\ cur' = NoRow
  /\ html' = NoHtml
  /\ resp' = ""
  /\ kind' = ""
  /\ io' = NoIO
  /\ UNCHANGED <<done_skus, out, log, n, groq_cache, html_cache, page, attempt,
                 budget, backoff, nrows, tables_text, api_key, since, skus_read, throttle>>

Next ==
  \/ MissingKeyExit
  \/ StartRun
  \/ RowMissing
  \/ RowResumeSkip
  \/ RowCacheHit
  \/ RowHtmlCacheHit
  \/ RowFetchStart
  \/ ScrapeOK
  \/ ScrapeRetry
  \/ ScrapeExhausted
  \/ Groq429
  \/ Groq413
  \/ GroqError
  \/ GroqOK
  \/ EndRun

Spec == Init /\ [][Next]_vars

\* the script is one sequential thread: as long as each call to the page and
\* to the endpoint returns or raises, its next statement is executed
FairSpec == Init /\ [][Next]_vars /\ WF_vars(Next)

(***************************************************************************)
(* The Bot-Block Detector on its own: looks_blocked_visible_text applied   *)
(* to documents of up to MaxNodes elements                                 *)
(***************************************************************************)
\* texts of the elements: product text, the strong phrases as pages show
\* them, "captcha" and the weak phrases, a strong phrase in two parts
DetectorTexts ==
  { <<"L", "a", "p", "t", "o", "p">>,
    <<"P", "l", "e", "a", "s", "e", " ", "v", "e", "r", "i", "f", "y", " ", "y", "o", "u", " ", "a", "r", "e", " ", "a", " ", "h", "u", "m", "a", "n">>,
    <<"E", "n", "t", "e", "r", " ", "t", "h", "e", " ", "c", "h", "a", "r", "a", "c", "t", "e", "r", "s", " ", "y", "o", "u", " ", "s", "e", "e">>,
    <<"R", "o", "b", "o", "t", " ", "C", "h", "e", "c", "k">>,
    <<"I", " ", "a", "m", " ", "n", "o", "t", " ", "a", " ", "r", "o", "b", "o", "t">>,
    <<"U", "n", "u", "s", "u", "a", "l", " ", "T", "r", "a", "f", "f", "i", "c">>,
    <<"A", "u", "t", "o", "m", "a", "t", "e", "d", " ", "a", "c", "c", "e", "s", "s">>,
    <<"C", "A", "P", "T", "C", "H", "A">>,
    <<"V", "e", "r", "i", "f", "y", " ", "y", "o", "u", " ", "a", "r", "e">>,
    <<"a", " ", "h", "u", "m", "a", "n">>,
    <<"R", "o", "b", "o", "t">> }

\* an element is a paragraph or a script
DetectorNodes == {[tag |-> t, text |-> x] : t \in {"p", "script"}, x \in DetectorTexts}

DetectorDocs ==
  {Doc(<<>>, SKIP_HTML_IF_EXISTS_OVER_BYTES, nodes) :
     nodes \in UNION {[1..k -> DetectorNodes] : k \in 0..MaxNodes}}

DetectorInit ==
  /\ pc = "detect"
  /\ html \in DetectorDocs
  /\ prior = <<>> /\ done_skus = {} /\ out = <<>> /\ log = <<>> /\ n = 0
  /\ cur = NoRow /\ groq_cache = NoFiles /\ html_cache = NoFiles /\ page = NoHtml
  /\ browser = "none" /\ attempt = 0 /\ budget = FullBudget /\ backoff = 0
  /\ resp = "" /\ kind = "" /\ io = NoIO /\ nrows = 0 /\ skus_read = <<>>
  /\ throttle = 0 /\ api_key = TRUE /\ since = MIN_DELAY_BETWEEN_CALLS
  /\ tables_text = NA

\* if looks_blocked_visible_text(html): ...
CallDetector ==
  /\ pc = "detect"
  /\ pc' = "detected"
  /\ kind' = IF looks_blocked_visible_text(html) THEN "blocked" ELSE "clear"
  /\ UNCHANGED <<prior, done_skus, out, log, n, cur, groq_cache, html_cache, page,
                 browser, attempt, html, budget, backoff, resp, io, nrows, tables_text, skus_read,
                 throttle, api_key, since>>

NextDetector == CallDetector

SpecDetector == DetectorInit /\ [][NextDetector]_vars

(***************************************************************************)
(* HTML Compactor: the table lines of html_to_compact_payload.  A document *)
(* is a sequence of nodes; a table row is a node with tag "tr" whose cells *)
(* are the texts of its th and td elements, in document order.             *)
(***************************************************************************)
\* the literals of the test `len(k) <= 70 and len(v) <= 220`, and of tables[:140]
MaxKeyLen == 70
MaxValueLen == 220
MaxTableLines == 140

\* re.sub(r"\s+", " ", s or ""): every run of whitespace becomes one space
collapse_runs(s) ==
  LET t == [i \in 1..Len(s) |->
              IF s[i] \notin Whitespace THEN s[i]
              ELSE IF i > 1 /\ s[i - 1] \in Whitespace THEN "" ELSE " "]
  IN  SelectSeq(t, LAMBDA c : c # "")

\* re.sub(r"\s+", " ", s or "").strip()
collapse_ws(s) == Strip(collapse_runs(s))

\* soup.select("tr")
SelectTr(nodes) == SelectSeq(nodes, LAMBDA e : e.tag = "tr")

\* cells = [collapse_ws(c.get_text(" ", strip=True)) for c in tr.find_all(...)]
CellsOf(tr) == [j \in 1..Len(tr.cells) |-> collapse_ws(tr.cells[j])]

\* seeded fault: only rows of exactly two cells give a line
table_lines_TwoCellsOnly(rows) ==
  LET Gives(tr) ==
        LET cells == CellsOf(tr)
        IN  /\ Len(cells) = 2
            /\ cells[1] # <<>> /\ cells[2] # <<>>
            /\ Len(cells[1]) <= MaxKeyLen /\ Len(cells[2]) <= MaxValueLen
      kept == SelectSeq(rows, Gives)
  IN  [i \in 1..Len(kept) |->
         CellsOf(kept[i])[1] \o <<":", " ">> \o CellsOf(kept[i])[2]]

\* the loop over the rows: a row of two cells or more gives f"{k}: {v}" of
\* its first two cells when both are non-empty and short enough
table_lines(rows) ==
  LET Gives(tr) ==
        LET cells == CellsOf(tr)
        IN  /\ Len(cells) >= 2
            /\ cells[1] # <<>> /\ cells[2] # <<>>
            /\ Len(cells[1]) <= MaxKeyLen /\ Len(cells[2]) <= MaxValueLen
      kept == SelectSeq(rows, Gives)
  IN  [i \in 1..Len(kept) |->
         CellsOf(kept[i])[1] \o <<":", " ">> \o CellsOf(kept[i])[2]]

\* seeded fault: a line is kept every time it occurs
dedupe_KeepAll(lines) == lines

\* the `seen` loop: each line once, where it first occurs
dedupe(lines) ==
  LET first == SelectSeq([i \in 1..Len(lines) |-> i],
                         LAMBDA i : \A j \in 1..(i - 1) : lines[j] # lines[i])
  IN  [m \in 1..Len(first) |-> lines[first[m]]]

\* "\n".join(lines), the left half joined to the right half
RECURSIVE JoinLines(_)
JoinLines(lines) ==
  IF lines = <<>> THEN <<>>
  ELSE IF Len(lines) = 1 THEN lines[1]
       ELSE LET h == Len(lines) \div 2
            IN  JoinLines(SubSeq(lines, 1, h)) \o <<"\n">>
                  \o JoinLines(SubSeq(lines, h + 1, Len(lines)))

\* tables_text = "\n".join(tables[:140]) if tables else NA
TablesText(html_doc) ==
  LET tables == dedupe(table_lines(SelectTr(html_doc.nodes)))
  IN  IF tables = <<>> THEN NA
      ELSE JoinLines(SubSeq(tables, 1,
             IF Len(tables) < MaxTableLines THEN Len(tables) ELSE MaxTableLines))

\* ---- inputs of the compactor taken on its own ----
MaxTableRows == 2

Rep(c, k) == [i \in 1..k |-> c]

Tr(cells) == [tag |-> "tr", cells |-> cells]

TableRows ==
  { Tr(<<>>),
    Tr(<< <<"R", "A", "M">> >>),
    Tr(<< <<"R", "A", "M">>, <<"8">> >>),
    Tr(<< <<" ", "R", "A", "M", " ">>, <<"8", " ", " ", "G", "B">> >>),
    Tr(<< <<"R", "A", "M">>, <<"8">>, <<"G", "B">> >>),
    Tr(<< <<"C", "P", "U">>, <<"i", "5">> >>),
    Tr(<< <<" ">>, <<"8">> >>),
    Tr(<< <<"R", "A", "M">>, <<>> >>),
    Tr(<< Rep("k", MaxKeyLen), <<"8">> >>),
    Tr(<< Rep("k", MaxKeyLen + 1), <<"8">> >>),
    Tr(<< <<"R", "A", "M">>, Rep("v", MaxValueLen) >>),
    Tr(<< <<"R", "A", "M">>, Rep("v", MaxValueLen + 1) >>) }

\* a table of MaxTableLines + 1 rows that give as many different lines
LongTable ==
  [j \in 1..(MaxTableLines + 1) |->
     Tr(<< Rep("k", ((j - 1) % MaxKeyLen) + 1),
           Rep("v", ((j - 1) \div MaxKeyLen) + 1) >>)]

CompactorDocs ==
  {Doc(<<>>, SKIP_HTML_IF_EXISTS_OVER_BYTES, nodes) :
     nodes \in UNION {[1..k -> TableRows] : k \in 0..MaxTableRows}
               \cup {LongTable, LongTable \o LongTable,
                     <<[tag |-> "p", text |-> <<"R", "A", "M">>]>>}}

CompactorInit ==
  /\ pc = "compact"
  /\ html \in CompactorDocs
  /\ prior = <<>> /\ done_skus = {} /\ out = <<>> /\ log = <<>> /\ n = 0
  /\ cur = NoRow /\ groq_cache = NoFiles /\ html_cache = NoFiles /\ page = NoHtml
  /\ browser = "none" /\ attempt = 0 /\ budget = FullBudget /\ backoff = 0
  /\ resp = "" /\ kind = "" /\ io = NoIO /\ nrows = 0 /\ skus_read = <<>>
  /\ throttle = 0 /\ api_key = TRUE /\ since = MIN_DELAY_BETWEEN_CALLS
  /\ tables_text = NA

\* payload = html_to_compact_payload(html, max_visible_chars=18000)
CallCompactor ==
  /\ pc = "compact"
  /\ pc' = "compacted"
  /\ tables_text' = TablesText(html)
  /\ UNCHANGED <<prior, done_skus, out, log, n, cur, groq_cache, html_cache, page,
                 browser, attempt, html, budget, backoff, resp, kind, io, nrows,
                 skus_read, throttle, api_key, since>>

NextCompactor == CallCompactor

SpecCompactor == CompactorInit /\ [][NextCompactor]_vars

(***************************************************************************)
(* Properties                                                              *)
(***************************************************************************)
\* column of a field in the output
Col(h) == CHOOSE i \in 1..Len(HEADERS) : HEADERS[i] = h

\* the row written last
LastRow == out[Len(out)]

\* records skipped by the Resume Index so far
Skipped ==
  Cardinality({i \in 1..Len(log) : log[i].tag = "ROW_SKIP already_in_old_csv"})

Logged(tag) == \E i \in 1..Len(log) : log[i].tag = tag

\* the input value, or "#NA" when it is blank
ValueOrNA(v) == IF Strip(v) = <<>> THEN NA ELSE v

\* C1: the number of data rows written equals the number of input records
\* read that the Resume Index did not skip, whatever their outcome (the
\* record being processed has no row yet).
C1_OneRowPerUnskippedRecord ==
  pc \notin {"start", "aborted"} =>
    Len(out) - 1 = (IF pc \in {"scrape", "groq"} THEN n - 1 ELSE n) - Skipped

C1_Witness ==
  pc = "done" /\ n = 2 /\ Skipped = 1 /\ Logged("ROW_FAIL groq") /\ Len(out) = 2

\* C2 (as stated): the header and every row have exactly 45 columns, sku,
\* base_code and 43 attributes__ fields.
C2_FortyFiveColumns ==
  \A i \in 1..Len(out) :
    /\ Len(out[i]) = 45
    /\ i = 1 => Cardinality({j \in 1..Len(out[1]) : out[1][j][1] = "attributes"}) = 43

\* C2 (amended): the header and every row have exactly 46 columns in one
\* fixed order: sku, base_code, then 44 distinct attributes__ fields; a row's
\* cells stand in the columns of their fields.
C2_FortySixColumns ==
  pc \notin {"start", "aborted"} =>
    /\ out[1] = HEADERS
    /\ Len(HEADERS) = 46
    /\ Cardinality(HeaderSet) = 46
    /\ HEADERS[1] = <<"sku">>
    /\ HEADERS[2] = <<"base_code">>
    /\ \A j \in 3..Len(HEADERS) : Len(HEADERS[j]) = 2 /\ HEADERS[j][1] = "attributes"
    /\ Cardinality({j \in 1..Len(HEADERS) : HEADERS[j][1] = "attributes"}) = 44
    /\ \A i \in 1..Len(out) : Len(out[i]) = Len(HEADERS)
    /\ (pc = "loop" /\ kind \notin {"", "resume"}) =>
         /\ LastRow[1] = cur.sku
         /\ LastRow[2] = cur.sku
         /\ LastRow[3] = ValueOrNA(cur.ean)

C2_Witness ==
  pc = "loop" /\ Len(out) = 3 /\ kind = "model" /\ Logged("ROW_SKIP missing sku/url")

\* C3: in a row built from a model result or an Extraction Cache entry, sku,
\* base_code, lulu_ean, shipping_weight, color, lulu_product_type and version
\* equal the input record's sku, sku, ean, shipping_weight, color,
\* product_type and mm43 (or "#NA" when blank), whatever the model or the
\* cache supplied.
C3_OverridesFromInput ==
  (pc = "loop" /\ kind \in {"model", "cache"}) =>
    /\ LastRow[Col(<<"sku">>)] = cur.sku
    /\ LastRow[Col(<<"base_code">>)] = cur.sku
    /\ LastRow[Col(<<"attributes", "lulu_ean">>)] = ValueOrNA(cur.ean)
    /\ LastRow[Col(<<"attributes", "shipping_weight">>)] = ValueOrNA(cur.shipping_weight)
    /\ LastRow[Col(<<"attributes", "color">>)] = ValueOrNA(cur.color)
    /\ LastRow[Col(<<"attributes", "lulu_product_type">>)] = ValueOrNA(cur.product_type)
    /\ LastRow[Col(<<"attributes", "version">>)] = ValueOrNA(cur.mm43)

C3_Witness ==
  /\ pc = "loop"
  /\ kind = "cache"
  /\ groq_cache[cur.sku] = HostileObject
  /\ cur.ean # <<>>
  /\ LastRow[Col(<<"attributes", "lulu_ean">>)] = cur.ean

\* C4: no field of an emitted row (normalized row or NA fallback row) is
\* empty or whitespace-only.
C4_NoBlankField ==
  \A i \in 2..Len(out) : \A j \in 1..Len(out[i]) : Strip(out[i][j]) # <<>>

\* C5: a record that finds an Extraction Cache entry for its sku (any
\* persisted model result, the empty object included) does no page fetch, no
\* HTML cache read and no model call.
C5_CacheEntryBypassesFetchAndModel ==
  io.cached =>
    /\ io.navs = 0
    /\ io.hcReads = 0
    /\ io.calls = 0
    /\ kind \in {"cache", "missing", "resume"}

\* C6 (as stated): a record with no Extraction Cache entry and an HTML Cache
\* entry of at least the threshold size does no navigation, and the model is
\* called for it, whatever the cached HTML holds.
C6_HtmlCacheThenModelCall ==
  (io.htmlBig /\ ~io.cached /\ kind \notin {"missing", "resume"}) =>
    /\ io.navs = 0
    /\ kind # "" => io.calls >= 1

\* C6 (amended): such a record does no navigation, and the model is called
\* for it unless the cached HTML is classified as blocked; a blocked one gets
\* an NA row without a model call.
C6_HtmlCacheThenModelCallUnlessBlocked ==
  (io.htmlBig /\ ~io.cached /\ kind \notin {"missing", "resume"}) =>
    /\ io.navs = 0
    /\ html = html_cache[cur.sku]
    /\ kind # "" =>
         IF looks_blocked_visible_text(html)
         THEN kind = "blocked" /\ io.calls = 0
         ELSE io.calls >= 1

C6_Witness ==
  io.htmlBig /\ ~io.cached /\ kind = "model" /\ io.navs = 0 /\ io.calls >= 1

\* C7: a record whose sku is in the Resume Index is skipped entirely,
\* whatever its other fields: no cache check, no fetch, no model call, no row.
C7_ResumeIndexSkipsEntirely ==
  (pc = "loop" /\ n > 0 /\ cur.sku \in done_skus) =>
    /\ kind = "resume"
    /\ io.gcReads = 0 /\ io.navs = 0 /\ io.calls = 0
    /\ log[Len(log)] = Line("ROW_SKIP already_in_old_csv", cur.sku)

\* C8 (as stated): no two rows of a run's output have the same sku value.
C8_SkuAtMostOnce ==
  \A i, j \in 2..Len(out) : i # j => out[i][1] # out[j][1]

Occurrences(seq, v) == Cardinality({i \in 1..Len(seq) : seq[i] = v})

\* C8 (amended): every row carries the sku of an input record, and a sku
\* value is in at most as many rows as there are input records with it; so
\* it is in at most one row when the skus of the input records are distinct.
C8_SkuAtMostOncePerInputRecord ==
  pc \notin {"start", "aborted"} =>
    \A i \in 1..(Len(out) - 1) :
      LET s == SkuColumn(out)[i] IN
        /\ Occurrences(skus_read, s) >= 1
        /\ Occurrences(SkuColumn(out), s) <= Occurrences(skus_read, s)

C8_Witness ==
  /\ pc = "loop"
  /\ skus_read = <<skuA, skuB>>
  /\ SkuColumn(out) = <<skuA, skuB>>

\* C9 (as stated): the row of a record with an empty url has "#NA" in every
\* field but sku and base_code; no fetch, no model call; one skipped-row line.
C9_EmptyUrlRowAllNA ==
  (pc = "loop" /\ n > 0 /\ cur.url = <<>>) =>
    /\ \A j \in 3..Len(HEADERS) : LastRow[j] = NA
    /\ io.navs = 0 /\ io.calls = 0
    /\ log[Len(log)] = Line("ROW_SKIP missing sku/url", cur.sku)

\* C9 (amended): that row has the record's sku in sku and base_code, the
\* record's ean, shipping_weight, color, product_type, mm43 and category (or
\* "#NA" when blank) in their six mapped fields, and "#NA" in every other
\* field; no fetch and no model call is made, and one skipped-row line is
\* logged.
C9_EmptyUrlRowNAButMapped ==
  (pc = "loop" /\ n > 0 /\ cur.url = <<>>) =>
    /\ kind = "missing"
    /\ \A j \in 1..Len(HEADERS) :
         LastRow[j] =
           CASE HEADERS[j] = <<"sku">> -> cur.sku
             [] HEADERS[j] = <<"base_code">> -> cur.sku
             [] HEADERS[j] = <<"attributes", "lulu_ean">> -> ValueOrNA(cur.ean)
             [] HEADERS[j] = <<"attributes", "shipping_weight">> ->
                  ValueOrNA(cur.shipping_weight)
             [] HEADERS[j] = <<"attributes", "color">> -> ValueOrNA(cur.color)
             [] HEADERS[j] = <<"attributes", "lulu_product_type">> ->
                  ValueOrNA(cur.product_type)
             [] HEADERS[j] = <<"attributes", "version">> -> ValueOrNA(cur.mm43)
             [] HEADERS[j] = <<"attributes", "other_information">> ->
                  ValueOrNA(cur.category)
             [] OTHER -> NA
    /\ io.navs = 0 /\ io.calls = 0 /\ io.hcReads = 0 /\ io.gcReads = 0
    /\ log[Len(log)] = Line("ROW_SKIP missing sku/url", cur.sku)
    /\ Len(log) = n + 1

C9_Witness ==
  /\ pc = "loop"
  /\ kind = "missing"
  /\ cur.url = <<>>
  /\ cur.sku = skuA
  /\ LastRow[Col(<<"attributes", "lulu_ean">>)] = <<"1", "2", "3">>

\* C10: when the endpoint answers HTTP 429 five times in a row and then
\* succeeds, the call is still running after each of the five, the record
\* gets its extracted row and the result is cached; and every backoff slept
\* in a call is strictly greater than the one before it, whatever the jitter.
C10_FiveRateLimitsThenSuccess ==
  /\ [](/\ (resp = "429" /\ io.r429 < MAX_GROQ_RETRIES) => pc = "groq"
        /\ (resp = "ok" /\ io.r429 = MAX_GROQ_RETRIES - 1) =>
             /\ kind = "model"
             /\ io.gcWrites = 1
             /\ cur.sku \in DOMAIN groq_cache
             /\ LastRow = CsvLine(EnforceMappings(normalize_to_headers(groq_cache[cur.sku]),
                                                  cur)))
  /\ [][(resp' = "429" /\ io.r429 >= 1 /\ io'.r429 = io.r429 + 1) => backoff' > backoff]_vars

C10_Witness ==
  resp = "ok" /\ io.r429 = MAX_GROQ_RETRIES - 1 /\ kind = "model" /\ io.calls = MAX_GROQ_RETRIES

\* C11: every per-row failure (fetch exhausted, blocked page, second HTTP
\* 413, HTTP 429 retries exhausted, another HTTP error or an answer without
\* JSON) gives the record an NA fallback row and leaves main() in its loop
\* with the browser open, where the next record can be read or the run ends
\* normally; none of them aborts the run.
C11_RowFailuresIsolated ==
  kind \in {"scrapefail", "blocked", "groqfail"} =>
    /\ pc = "loop"
    /\ browser = "open"
    /\ LastRow = CsvLine(make_na_row(cur))
    /\ Len(out) - 1 = n - Skipped
    /\ IF n < nrows
       THEN ENABLED (RowMissing \/ RowResumeSkip \/ RowCacheHit \/ RowHtmlCacheHit
                       \/ RowFetchStart)
       ELSE ENABLED EndRun

\* a record is extracted after the record before it failed in the model call
C11_Witness ==
  /\ n = 2 /\ kind = "model" /\ Len(out) = 3
  /\ Logged("ROW_FAIL groq")
  /\ out[2] = CsvLine(make_na_row([cur EXCEPT !.sku = out[2][1]]))

\* C12: when the API key is absent the run aborts before any work: no input
\* record is read, no output artifact is created, no row is written, nothing
\* is logged, no cache is touched, the browser is never launched.
C12_NoKeyNoWork ==
  (~api_key \/ pc = "aborted") =>
    /\ ~api_key
    /\ pc \in {"start", "aborted"}
    /\ n = 0 /\ skus_read = <<>>
    /\ out = <<>> /\ log = <<>>
    /\ browser = "none"
    /\ groq_cache = NoFiles /\ html_cache = NoFiles
    /\ io = NoIO

C12_Witness == pc = "aborted" /\ ~api_key /\ nrows > 0

\* the visible text of a document as the claim describes it: the texts of
\* the elements that are not script, style, noscript, svg, canvas or iframe
RECURSIVE C13_Join(_)
C13_Join(ts) ==
  IF Len(ts) = 0 THEN <<>>
  ELSE IF Len(ts) = 1 THEN ts[1]
  ELSE ts[1] \o <<" ">> \o C13_Join(Tail(ts))

C13_Kept(node) ==
  /\ node.tag \notin {"script", "style", "noscript", "svg", "canvas", "iframe"}
  /\ Strip(node.text) # <<>>

C13_VisibleLower(nodes) ==
  LET kept == SelectSeq(nodes, C13_Kept)
  IN  Lower(C13_Join([i \in 1..Len(kept) |-> Strip(kept[i].text)]))

C13_Strong ==
  { <<"e", "n", "t", "e", "r", " ", "t", "h", "e", " ", "c", "h", "a", "r", "a", "c", "t", "e", "r", "s", " ", "y", "o", "u", " ", "s", "e", "e">>,
    <<"v", "e", "r", "i", "f", "y", " ", "y", "o", "u", " ", "a", "r", "e", " ", "a", " ", "h", "u", "m", "a", "n">>,
    <<"r", "o", "b", "o", "t", " ", "c", "h", "e", "c", "k">>,
    <<"n", "o", "t", " ", "a", " ", "r", "o", "b", "o", "t">>,
    <<"u", "n", "u", "s", "u", "a", "l", " ", "t", "r", "a", "f", "f", "i", "c">>,
    <<"a", "u", "t", "o", "m", "a", "t", "e", "d", " ", "a", "c", "c", "e", "s", "s">> }

C13_Weak ==
  { <<"v", "e", "r", "i", "f", "y">>, <<"r", "o", "b", "o", "t">>, <<"h", "u", "m", "a", "n">>, <<"u", "n", "u", "s", "u", "a", "l", " ", "t", "r", "a", "f", "f", "i", "c">> }

C13_VerifyHuman == <<"P", "l", "e", "a", "s", "e", " ", "v", "e", "r", "i", "f", "y", " ", "y", "o", "u", " ", "a", "r", "e", " ", "a", " ", "h", "u", "m", "a", "n">>

\* C13: the detector answers true exactly when the lower-cased visible text
\* holds one of the six strong phrases, or "captcha" together with one of
\* the four weak phrases; a text with "Please verify you are a human" is
\* blocked, a text without any of the phrases is not.
C13_BlockedIffPhrase ==
  pc = "detected" =>
    LET text == C13_VisibleLower(html.nodes)
        strong == \E p \in C13_Strong : Contains(text, p)
        weak == Contains(text, <<"c", "a", "p", "t", "c", "h", "a">>) /\ \E p \in C13_Weak : Contains(text, p)
    IN  /\ (kind = "blocked") <=> (strong \/ weak)
        /\ kind \in {"blocked", "clear"}
        /\ (\E i \in 1..Len(html.nodes) :
              html.nodes[i] = [tag |-> "p", text |-> C13_VerifyHuman])
             => kind = "blocked"
        /\ (~strong /\ \A p \in C13_Weak \cup {<<"c", "a", "p", "t", "c", "h", "a">>} : ~Contains(text, p))
             => kind = "clear"

\* "captcha" and a weak phrase in two elements, no strong phrase: blocked
C13_Witness ==
  /\ pc = "detected" /\ kind = "blocked"
  /\ Len(html.nodes) = 2
  /\ html.nodes[1].text = <<"C", "A", "P", "T", "C", "H", "A">>
  /\ html.nodes[2].text = <<"R", "o", "b", "o", "t">>
  /\ html.nodes[1].tag = "p" /\ html.nodes[2].tag = "p"

\* C14: an HTTP 413 for a record is followed by one recompaction with the
\* reduced budget and one more call; an HTTP 413 on that call is followed by
\* no shrink and no call: the record gets an NA row, no Extraction Cache
\* entry is written, and main() is back in its loop.
C14_OneShrinkThenRowFails ==
  /\ [](/\ io.r413 <= 2
        /\ (pc = "groq" /\ io.r413 = 0) => budget = FullBudget
        /\ (pc = "groq" /\ io.r413 = 1) => budget = SmallBudget /\ io.gcWrites = 0
        /\ io.r413 = 2 =>
             /\ pc = "loop" /\ kind = "groqfail" /\ resp = "413"
             /\ io.gcWrites = 0
             /\ LastRow = CsvLine(make_na_row(cur))
             /\ browser = "open")
  /\ [][(resp' = "413" /\ io'.r413 = 1) =>
          /\ budget = FullBudget /\ budget' = SmallBudget
          /\ pc' = "groq" /\ attempt' = 1
          /\ UNCHANGED <<out, groq_cache>>]_vars
  /\ [][(resp' = "413" /\ io'.r413 = 2) =>
          /\ budget = SmallBudget
          /\ io'.calls = io.calls + 1
          /\ Len(out') = Len(out) + 1
          /\ groq_cache' = groq_cache]_vars

C14_Witness ==
  /\ io.r413 = 2 /\ io.calls = 2 /\ kind = "groqfail" /\ pc = "loop"
  /\ cur.sku \notin DOMAIN groq_cache

\* C15: every request to the model endpoint is sent at least
\* MIN_DELAY_BETWEEN_CALLS after the previous one (after _last_call_ts was
\* last set), be it a retry after 429 or 413 or the first call of a later
\* record: pace_calls sleeps what is missing before each of them.
C15_RequestsPaced ==
  /\ [](io.paced)
  /\ [][(io'.calls = io.calls + 1) =>
          /\ since + pace_calls(since) >= MIN_DELAY_BETWEEN_CALLS
          /\ (pc' = "groq") => (since + io'.slept >= MIN_DELAY_BETWEEN_CALLS)]_vars

\* a retry right after an HTTP 413: pace_calls slept all but the time the
\* endpoint took to answer
C15_Witness ==
  /\ pc = "groq" /\ io.calls = 2 /\ io.r413 = 1 /\ resp = "429"
  /\ io.slept = MIN_DELAY_BETWEEN_CALLS - 1
  /\ io.paced

\* C16: on an HTML cache miss scrape_html navigates at most
\* MAX_SCRAPE_ATTEMPTS times: a failed attempt is followed by the next one,
\* the first attempt that completes ends the call with success, and failure
\* is returned only after exactly MAX_SCRAPE_ATTEMPTS failed attempts.
C16_AtMostThreeAttempts ==
  /\ [](/\ io.navs <= MAX_SCRAPE_ATTEMPTS
        /\ io.navs > 0 => ~io.htmlBig
        /\ pc = "scrape" => (attempt <= MAX_SCRAPE_ATTEMPTS /\ io.navs = attempt - 1)
        /\ kind = "scrapefail" => io.navs = MAX_SCRAPE_ATTEMPTS)
  /\ [][(pc = "scrape" /\ pc' = "scrape") =>
          /\ attempt' = attempt + 1 /\ io'.navs = io.navs + 1
          /\ UNCHANGED <<out, html_cache, n>>]_vars
  /\ [][(pc = "scrape" /\ pc' # "scrape") =>
          /\ io'.navs = attempt
          /\ (kind' # "scrapefail") => (io'.hcWrites = 1 /\ html' = page')
          /\ (kind' = "scrapefail") => attempt = MAX_SCRAPE_ATTEMPTS]_vars
  /\ [][(pc # "scrape" /\ io'.navs # io.navs) => (n' = n + 1 \/ pc' = "done")]_vars

\* the second attempt completes after the first failed
C16_Witness == pc = "groq" /\ io.navs = 2 /\ io.hcWrites = 1

\* C17 (as stated): {sku}.html is written on every attempt, successful or
\* failed, so that whenever scrape_html has returned after navigating, an
\* HTML Cache entry was written during the call.
C17_HtmlSavedOnEveryAttempt ==
  (pc \notin {"start", "aborted", "scrape"} /\ io.navs > 0) =>
    /\ io.hcWrites = io.navs
    /\ io.hcWrites >= 1

\* C17 (amended): a failed attempt writes nothing; the attempt that
\* completes writes {sku}.html once; after the last failed attempt one save
\* of what the page holds is tried.  When scrape_html has returned HTML
\* after navigating, with success or with failure, that HTML is the HTML
\* Cache entry of the sku, written once during the call; it returns no HTML
\* only with failure, when that last save failed.
C17_HtmlSavedOnSuccessOrFinalSave ==
  /\ pc = "scrape" => io.hcWrites = 0
  /\ (pc \notin {"start", "aborted", "scrape"} /\ io.navs > 0) =>
       /\ io.hcWrites <= 1
       /\ kind # "scrapefail" => io.hcWrites = 1
       /\ html.bytes > 0 =>
            /\ io.hcWrites = 1
            /\ cur.sku \in DOMAIN html_cache
            /\ html_cache[cur.sku] = html
       /\ html.bytes = 0 => (io.hcWrites = 0 /\ kind = "scrapefail")

\* three failed attempts, then what the page still held was saved
C17_Witness ==
  /\ kind = "scrapefail" /\ io.navs = MAX_SCRAPE_ATTEMPTS /\ io.hcWrites = 1
  /\ html_cache[cur.sku] = BlankPage

\* C18: when the HTML of a record, fetched or cached, is classified as
\* blocked, the record gets an NA fallback row and is over: no further
\* navigation, no model call, no Extraction Cache write.
C18_BlockedRowNoModelCall ==
  /\ []((pc \in {"loop", "groq"} /\ kind # "scrapefail" /\ html.bytes > 0
           /\ looks_blocked_visible_text(html)) =>
          /\ pc = "loop" /\ kind = "blocked"
          /\ io.calls = 0 /\ io.gcWrites = 0
          /\ LastRow = CsvLine(make_na_row(cur))
          /\ io.htmlBig => io.navs = 0
          /\ ~io.htmlBig => (io.navs >= 1 /\ io.hcWrites = 1))
  /\ [][(kind' = "blocked" /\ pc # "loop") =>
          (io'.navs = attempt /\ groq_cache' = groq_cache /\ Len(out') = Len(out) + 1)]_vars
  /\ [][(kind = "blocked") =>
          (n' = n + 1 \/ pc' = "done")]_vars

\* the page fetched at the second attempt is a challenge page
C18_Witness ==
  /\ kind = "blocked" /\ io.navs = 2 /\ io.calls = 0
  /\ html.nodes = RobotCheckNodes

\* C19: an Extraction Cache entry is written only with a successful model
\* call for the sku of the record, together with that record's row, and only
\* when the sku has no entry yet: an entry, once written, is never written
\* again nor removed.
C19_CacheEntryWrittenOnce ==
  /\ [][(io'.gcWrites = io.gcWrites + 1) =>
          /\ resp' = "ok" /\ io'.calls = io.calls + 1
          /\ Len(out') = Len(out) + 1
          /\ cur.sku \in DOMAIN groq_cache'
          /\ cur.sku \notin DOMAIN groq_cache]_vars
  /\ [][\A sku \in DOMAIN groq_cache :
          sku \in DOMAIN groq_cache' /\ groq_cache'[sku] = groq_cache[sku]]_vars
  /\ [][(groq_cache' # groq_cache) => (io'.gcWrites = io.gcWrites + 1)]_vars

\* C20: in a row built from a model result or an Extraction Cache entry,
\* attributes__other_information is the category of the input record (or
\* "#NA") when the model supplied no value for it (none, null, blank or
\* "#NA"), and the value the model supplied, unchanged, otherwise.
C20_CategoryOnlyWhenNotSupplied ==
  (pc = "loop" /\ kind \in {"model", "cache"}) =>
    LET supplied == groq_cache[cur.sku]
        oi == <<"attributes", "other_information">>
        none == \/ oi \notin DOMAIN supplied
                \/ supplied[oi] = None
                \/ IsStr(supplied[oi]) /\ Strip(supplied[oi]) = <<>>
                \/ supplied[oi] = NA
    IN  LastRow[Col(oi)] = IF none THEN ValueOrNA(cur.category) ELSE supplied[oi]

\* the model supplied " o" for a record whose category is "c"
C20_Witness ==
  /\ pc = "loop" /\ kind = "model"
  /\ cur.category = <<"c">>
  /\ LastRow[Col(<<"attributes", "other_information">>)] = <<" ", "o">>

\* what tables_text has to be when the rows that count are those whose number
\* of cells satisfies Counts: the lines of those rows with a non-empty key of
\* at most MaxKeyLen and a non-empty value of at most MaxValueLen characters,
\* each at the place of its first occurrence, the first MaxTableLines of them
C21_Text(rows, Counts(_)) ==
  LET k(i) == collapse_ws(rows[i].cells[1])
      v(i) == collapse_ws(rows[i].cells[2])
      Gives(i) == /\ Counts(Len(rows[i].cells))
                  /\ k(i) # <<>> /\ v(i) # <<>>
                  /\ Len(k(i)) <= MaxKeyLen /\ Len(v(i)) <= MaxValueLen
      LineOf(i) == k(i) \o <<":", " ">> \o v(i)
      Firsts == {i \in 1..Len(rows) :
                   /\ Gives(i)
                   /\ \A j \in 1..(i - 1) : ~(Gives(j) /\ LineOf(j) = LineOf(i))}
      Nth(m) == CHOOSE i \in Firsts : Cardinality({j \in Firsts : j <= i}) = m
      Kept == IF Cardinality(Firsts) < MaxTableLines
              THEN Cardinality(Firsts) ELSE MaxTableLines
  IN  IF Firsts = {} THEN NA
      ELSE JoinLines([m \in 1..Kept |-> LineOf(Nth(m))])

\* C21 as stated: tables_text is built from the rows of exactly two cells
\* only; a key longer than 70 or a value longer than 220 characters is
\* rejected; each line occurs once, in first-occurrence order; at most 140
\* lines are kept.
C21_OnlyTwoCellRows ==
  pc = "compacted" =>
    tables_text = C21_Text(SelectTr(html.nodes), LAMBDA c : c = 2)

\* C21 amended: tables_text is built from the first two cells of every row of
\* two cells or more whose key and value are both non-empty; rows of fewer
\* cells contribute nothing; a key longer than 70 or a value longer than 220
\* characters is rejected; each line occurs once, in first-occurrence order;
\* at most 140 lines are kept.
C21_FirstTwoCellsOfRows ==
  pc = "compacted" =>
    tables_text = C21_Text(SelectTr(html.nodes), LAMBDA c : c >= 2)

\* a row of three cells gave the line of its first two cells
C21_Witness ==
  /\ pc = "compacted"
  /\ \E i \in 1..Len(html.nodes) :
       html.nodes[i].tag = "tr" /\ Len(html.nodes[i].cells) = 3
  /\ tables_text = <<"R", "A", "M", ":", " ", "8">>

\* C22: whatever the page and the endpoint answer, the run gets past every
\* input record and ends with the one browser session closed (once closed
\* the browser is not opened again); a record takes at most
\* MAX_SCRAPE_ATTEMPTS navigations and at most 2 * MAX_GROQ_RETRIES requests
\* to the model (a run without the key ends at once, before any record).
C22_RunTerminatesWithinBounds ==
  /\ [](pc \notin {"start", "aborted"} =>
         /\ io.navs <= MAX_SCRAPE_ATTEMPTS
         /\ io.calls <= 2 * MAX_GROQ_RETRIES)
  /\ \A k \in 0..MaxRecords :
       (pc = "loop" /\ n = k /\ k < nrows) ~> (n = k + 1)
  /\ <>(\/ ~api_key /\ pc = "aborted"
        \/ pc = "done" /\ n = nrows /\ browser = "closed")
  /\ [][browser = "closed" => browser' = "closed"]_vars

\* the last record took three navigations and twelve requests, one of them
\* answered 413, and the run is about to end
C22_Witness ==
  /\ pc = "loop" /\ n = nrows /\ n > 0
  /\ io.navs = MAX_SCRAPE_ATTEMPTS
  /\ io.calls = 2 * MAX_GROQ_RETRIES
  /\ io.r413 = 1

\* C23: every HTML Cache entry the Page Fetcher writes holds content obtained
\* by a navigation to the url of the record it is written for, also when the
\* entry is the final save after the last failed attempt.
C23_HtmlEntryFromOwnUrl ==
  [][io'.hcWrites = io.hcWrites + 1 => html_cache'[cur.sku].src = cur.url]_vars

\* the skus of the most recent output that existed when the finished run
\* started (its own output is the last of prior), and of the older ones
C24_Latest ==
  IF Len(prior) < 2 THEN {}
  ELSE {prior[Len(prior) - 1][i] : i \in 1..Len(prior[Len(prior) - 1])}

C24_Older ==
  UNION {{prior[j][i] : i \in 1..Len(prior[j])} : j \in 1..(Len(prior) - 2)}

\* C24: the skus a run skips are exactly the skus of its input records that
\* are in the sku column of the most recent prior output, whatever row they
\* have there; a sku of the input that only an older output lists, or none,
\* gets a row again, and a sku that the most recent output lists gets none.
C24_SkippedAreLatestColumn ==
  pc = "done" =>
    LET read    == {skus_read[i] : i \in 1..Len(skus_read)} \ {<<>>}
        skipped == {log[i].sku : i \in {j \in 1..Len(log) :
                                   log[j].tag = "ROW_SKIP already_in_old_csv"}}
        emitted == {out[i][1] : i \in 2..Len(out)}
    IN  /\ skipped = read \cap C24_Latest
        /\ \A s \in read \ C24_Latest : s \in emitted
        /\ \A s \in read \cap C24_Latest : s \notin emitted

=============================================================================
